---------------------------- MODULE Spec2Model ----------------------------
(***************************************************************************)
(* Model of bot_fotos.py: the case / attempt state machine of the TuFibra   *)
(* evidence bot.                                                            *)
(*                                                                          *)
(* State = the sqlite tables (cases, chat_config, step_state, media,        *)
(* auth_text, pending_inputs) plus the inline buttons the bot has put into   *)
(* the chat (the only callback payloads Telegram will ever deliver).        *)
(*                                                                          *)
(* Scheduling: main() builds the Application without concurrent_updates and  *)
(* registers every handler blocking, so updates are handled one at a time:   *)
(* one action = one whole handler run.  A transport call (answer, edit,      *)
(* send) that is not wrapped in try/except may raise; the handler then stops *)
(* there and everything it committed before stays committed.  A handler that *)
(* writes to the database after such a call takes the input f: 0 when every  *)
(* call returns, 1 when a call that still has a write after it raises.  A    *)
(* call that raises after the handler's last write leaves the same database; *)
(* the keyboard it would have carried is then missing from the chat, which   *)
(* only takes presses away, so it is not a separate outcome.  The            *)
(* delete_message calls of a rejection sit in try/except: the handler takes  *)
(* the input deleted (FALSE when Telegram refuses) and goes on either way.   *)
(***************************************************************************)
EXTENDS Integers, Sequences, FiniteSets, TLC

(* ------------------------------ constants ------------------------------ *)

MAX_MEDIA_PER_STEP == 8
STEP_FIRST_MEDIA == 5
STEP_LAST_MEDIA == 15

\* SQL NULL of an INTEGER column (approved, reviewed_by, pending_step_no, finished_at ...)
NULL == -1
\* SQL NULL of the TEXT columns technician_name / service_type
NULL_NAME == "NULL"
\* SQL NULL of the free-text columns (abonado_code, reject_reason): texts are
\* sequences of characters and a stored text is never empty
NULL_TEXT == << >>

TECHNICIANS == <<"FLORO FERNANDEZ VASQUEZ">>
SERVICE_TYPES == <<"ALTA NUEVA">>

(* ------------------------------- bounds -------------------------------- *)

\* /inicio events (each stamps created_at with a later time; case ids never exceed it)
MaxClock == 2
\* step_state rows inserted after Init
MaxNewRows == 1
\* media rows inserted after Init
MaxNewMedia == 2

(* ------------------------------- inputs -------------------------------- *)

Chats == {1}
\* chats that have a chat_config row or may get one: chat 2 holds no case
ConfigChats == {1, 2}
\* Telegram user ids; 2 and 3 are administrators of the chat
Users == {1, 2, 3}
Admins == {2, 3}
\* the users who send /inicio
Openers == {1}
\* message texts: blank, and a reason / code with surrounding blanks
Texts == { <<" ">>, <<" ", "x", " ">> }
\* databases left behind by an earlier run of the bot (init_db keeps the file):
\* <<step the case is collecting, media items already in its open attempt>>
ResumePoints == { <<15, 7>> }

EvidenceSteps == STEP_FIRST_MEDIA..STEP_LAST_MEDIA

VARIABLES cases, chat_config, step_state, media, auth_text, pending_inputs,
          buttons, now, budget

vars == <<cases, chat_config, step_state, media, auth_text, pending_inputs,
          buttons, now, budget>>

(* ------------------------------- helpers ------------------------------- *)

Max(S) == CHOOSE x \in S : \A y \in S : y <= x

IsBlank(ch) == ch = " "

\* str.strip(): drop leading and trailing blanks
RECURSIVE LStrip(_)
LStrip(t) == IF t # << >> /\ IsBlank(Head(t)) THEN LStrip(Tail(t)) ELSE t

RECURSIVE RStrip(_)
RStrip(t) ==
    IF t # << >> /\ IsBlank(t[Len(t)]) THEN RStrip(SubSeq(t, 1, Len(t) - 1)) ELSE t

Strip(t) == RStrip(LStrip(t))

\* a callback payload placed in the chat: <<kind, chat, case, step, attempt>> (0: unused)
Button(kind, chat, c, s, a) == <<kind, chat, c, s, a>>

(* ------------------------------ DB helpers ----------------------------- *)

CaseIds(cs) == 1..Len(cs)

\* faulty variant: the latest case of the pair whatever its status
get_open_case_any(cs, chat_id, user_id) ==
    LET mine == {c \in CaseIds(cs) : cs[c].chat_id = chat_id /\ cs[c].user_id = user_id}
    IN IF mine = {} THEN NULL ELSE Max(mine)

get_open_case(cs, chat_id, user_id) ==
    LET open == {c \in CaseIds(cs) : /\ cs[c].chat_id = chat_id
                                     /\ cs[c].user_id = user_id
                                     /\ cs[c].status = "OPEN"}
    IN IF open = {} THEN NULL ELSE Max(open)

\* UPDATE cases SET k=v, ... WHERE case_id=?
update_case(cs, case_id, fields) ==
    [cs EXCEPT ![case_id] =
        [k \in DOMAIN @ |-> IF k \in DOMAIN fields THEN fields[k] ELSE @[k]]]

NewCase(chat_id, user_id, t) ==
    [chat_id |-> chat_id, user_id |-> user_id, created_at |-> t, finished_at |-> NULL,
     status |-> "OPEN", step_index |-> 0, phase |-> "WAIT_TECHNICIAN",
     pending_step_no |-> NULL, technician_name |-> NULL_NAME, service_type |-> NULL_NAME,
     abonado_code |-> NULL_TEXT, location_at |-> NULL]

\* faulty variant: always INSERT, never reuse the OPEN row
create_or_reset_case_insert(cs, chat_id, user_id, t) ==
    Append(cs, NewCase(chat_id, user_id, t))

\* faulty variant: the UPDATE of the reset leaves abonado_code as it is
create_or_reset_case_keep(cs, chat_id, user_id, t) ==
    LET row == get_open_case(cs, chat_id, user_id)
    IN IF row # NULL
       THEN update_case(cs, row,
                [created_at |-> t, finished_at |-> NULL, status |-> "OPEN", step_index |-> 0,
                 phase |-> "WAIT_TECHNICIAN", pending_step_no |-> NULL,
                 technician_name |-> NULL_NAME, service_type |-> NULL_NAME,
                 location_at |-> NULL])
       ELSE Append(cs, NewCase(chat_id, user_id, t))

create_or_reset_case(cs, chat_id, user_id, t) ==
    LET row == get_open_case(cs, chat_id, user_id)
    IN IF row # NULL
       THEN update_case(cs, row,
                [created_at |-> t, finished_at |-> NULL, status |-> "OPEN", step_index |-> 0,
                 phase |-> "WAIT_TECHNICIAN", pending_step_no |-> NULL,
                 technician_name |-> NULL_NAME, service_type |-> NULL_NAME,
                 abonado_code |-> NULL_TEXT, location_at |-> NULL])
       ELSE Append(cs, NewCase(chat_id, user_id, t))

\* faulty variant: UPDATE without the WHERE of the conflict target
set_approval_required_all(cfg, chat_id, required) == [ch \in DOMAIN cfg |-> required]

set_approval_required(cfg, chat_id, required) == [cfg EXCEPT ![chat_id] = required]

\* the row get_approval_required inserts when the chat has none (approval_required=1)
touch_approval(cfg, chat_id) ==
    IF cfg[chat_id] = NULL THEN [cfg EXCEPT ![chat_id] = 1] ELSE cfg

get_approval_required(cfg, chat_id) == cfg[chat_id] = NULL \/ cfg[chat_id] = 1

(* --------------------------- step_state helpers ------------------------ *)

Attempts(ss, c, s) == {k[3] : k \in {x \in DOMAIN ss : x[1] = c /\ x[2] = s}}

_max_attempt(ss, c, s) == IF Attempts(ss, c, s) = {} THEN 0 ELSE Max(Attempts(ss, c, s))

Unsubmitted(ss, c, s) == {a \in Attempts(ss, c, s) : ss[<<c, s, a>>].submitted = 0}

NewRow == [submitted |-> 0, approved |-> NULL, reviewed_by |-> NULL,
           reject_reason |-> NULL_TEXT, reject_reason_by |-> NULL]

\* the attempt number ensure_step_state returns
ensure_attempt(ss, c, s) ==
    IF Unsubmitted(ss, c, s) # {} THEN Max(Unsubmitted(ss, c, s))
    ELSE _max_attempt(ss, c, s) + 1

\* faulty variant: INSERT a new attempt even when an unsubmitted one exists
ensure_step_state_insert(ss, c, s) ==
    ss @@ (<<c, s, _max_attempt(ss, c, s) + 1>> :> NewRow)

\* the table after ensure_step_state
ensure_step_state(ss, c, s) ==
    IF Unsubmitted(ss, c, s) # {} THEN ss
    ELSE ss @@ (<<c, s, _max_attempt(ss, c, s) + 1>> :> NewRow)

\* faulty variant: the count never reaches the cap
media_count_zero(md, c, s, a) == 0

\* faulty variant: the count is never zero
media_count_one(md, c, s, a) == 1

media_count(md, c, s, a) == IF <<c, s, a>> \in DOMAIN md THEN Len(md[<<c, s, a>>]) ELSE 0

\* one media row, stamped created_at
add_media(md, c, s, a, t) ==
    IF <<c, s, a>> \in DOMAIN md THEN [md EXCEPT ![<<c, s, a>>] = Append(@, t)]
    ELSE md @@ (<<c, s, a>> :> <<t>>)

\* faulty variant: the UPDATE matches no row
mark_submitted_noop(ss, c, s, a) == ss

mark_submitted(ss, c, s, a) == [ss EXCEPT ![<<c, s, a>>].submitted = 1]

set_review(ss, c, s, a, approved, reviewer_id) ==
    [ss EXCEPT ![<<c, s, a>>].approved = approved, ![<<c, s, a>>].reviewed_by = reviewer_id]

set_reject_reason(ss, c, s, a, reason, reviewer_id) ==
    [ss EXCEPT ![<<c, s, a>>].reject_reason = reason,
               ![<<c, s, a>>].reject_reason_by = reviewer_id]

delete_media_rows(md, c, s, a) == [k \in DOMAIN md \ {<<c, s, a>>} |-> md[k]]

save_auth_text(at, c, s, a, text) == at \cup {[case_id |-> c, step_no |-> s, attempt |-> a, text |-> text]}

PendingRow(case_id, step_no, attempt, reply_to, tech_user_id, t) ==
    [case_id |-> case_id, step_no |-> step_no, attempt |-> attempt,
     reply_to_message_id |-> reply_to, tech_user_id |-> tech_user_id, created_at |-> t]

\* faulty variant: INSERT without the DELETE of the rows of the key
set_pending_input_add(pi, chat_id, user_id, row) ==
    [pi EXCEPT ![<<chat_id, user_id>>] = @ \cup {row}]

\* kind is always AUTH_REJECT_REASON: pending_inputs is keyed by <<chat, user>>;
\* DELETE the rows of the key, INSERT the new one
set_pending_input(pi, chat_id, user_id, row) == [pi EXCEPT ![<<chat_id, user_id>>] = {row}]

\* the rows of the key
pending_of(pi, chat_id, user_id) == pi[<<chat_id, user_id>>]

\* the row pop_pending_input returns: ORDER BY pending_id DESC LIMIT 1
\* (rows of one key are inserted at increasing times)
latest_pending(pi, chat_id, user_id) ==
    CHOOSE p \in pending_of(pi, chat_id, user_id) :
        \A q \in pending_of(pi, chat_id, user_id) : q.created_at <= p.created_at

\* the table after pop_pending_input: the returned row is deleted
pop_pending_input(pi, chat_id, user_id) ==
    IF pending_of(pi, chat_id, user_id) = {} THEN pi
    ELSE [pi EXCEPT ![<<chat_id, user_id>>] = @ \ {latest_pending(pi, chat_id, user_id)}]

\* faulty variant: everybody passes the check
is_admin_of_chat_any(user_id, reachable) == TRUE

\* get_chat_administrators may fail: then nobody passes the check
is_admin_of_chat(user_id, reachable) == reachable /\ user_id \in Admins


(* -------------------------------- Init --------------------------------- *)

NoRows == [k \in {} |-> NewRow]

InitFresh ==
    /\ cases = << >>
    /\ chat_config = [ch \in ConfigChats |-> NULL]
    /\ step_state = NoRows
    /\ media = [k \in {} |-> << >>]
    /\ auth_text = {}
    /\ pending_inputs = [k \in Chats \X Users |-> {}]
    /\ buttons = {}
    /\ now = 0
    /\ budget = [rows |-> MaxNewRows, media |-> MaxNewMedia]

\* The database and the chat after user 1 opened a case in chat 1, answered the form,
\* declined every authorization, sent one item per step and had steps 5..s0-1
\* approved by administrator 2; m0 items are already stored for step s0.  The
\* keyboards of the form and of step s0 are still in the chat; the older ones
\* have been deleted from it.  The clock is at its bound: the run that resumes
\* here receives no further /inicio.
Resumed(s0, m0) ==
    LET done == STEP_FIRST_MEDIA..(s0 - 1)
        open == IF m0 > 0 THEN {s0} ELSE {}
    IN
    /\ cases = << [NewCase(1, 1, 1) EXCEPT
                      !.step_index = 4,
                      !.phase = IF m0 > 0 THEN "STEP_MEDIA" ELSE "AUTH_ASK",
                      !.pending_step_no = s0,
                      !.technician_name = TECHNICIANS[1],
                      !.service_type = SERVICE_TYPES[1],
                      !.abonado_code = <<"x">>,
                      !.location_at = 1] >>
    /\ chat_config = [ch \in ConfigChats |-> IF ch = 1 THEN 1 ELSE NULL]
    /\ step_state = [k \in {<<1, s, 1>> : s \in done \cup open} |->
                        IF k[2] \in done
                        THEN [NewRow EXCEPT !.submitted = 1, !.approved = 1, !.reviewed_by = 2]
                        ELSE NewRow]
    /\ media = [k \in {<<1, s, 1>> : s \in done \cup open} |->
                        IF k[2] \in done THEN <<1>> ELSE [i \in 1..m0 |-> 1]]
    /\ auth_text = {}
    /\ pending_inputs = [k \in Chats \X Users |-> {}]
    /\ buttons = {Button("TECH", 1, 0, 0, 0), Button("SERV", 1, 0, 0, 0),
                  Button("AUTH_ASK", 1, 1, s0, 0)}
                 \cup {Button("MEDIA_CTRL", 1, 1, s, 0) : s \in open}
    /\ now = MaxClock
    /\ budget = [rows |-> MaxNewRows, media |-> MaxNewMedia]

Init == InitFresh \/ \E p \in ResumePoints : Resumed(p[1], p[2])

(* ------------------------------ commands ------------------------------- *)

\* /inicio
inicio_cmd(chat, u) ==
    /\ now < MaxClock
    /\ now' = now + 1
    /\ cases' = create_or_reset_case(cases, chat, u, now + 1)
    /\ chat_config' = touch_approval(chat_config, chat)
    /\ buttons' = buttons \cup {Button("TECH", chat, 0, 0, 0)}
    /\ UNCHANGED <<step_state, media, auth_text, pending_inputs, budget>>

\* faulty variant: cancelling also purges the media ledger of the case
cancelar_cmd_purge(chat, u) ==
    LET c == get_open_case(cases, chat, u)
    IN /\ cases' = IF c = NULL THEN cases
                   ELSE update_case(cases, c, [status |-> "CANCELLED", phase |-> "CANCELLED",
                                               finished_at |-> now])
       /\ media' = [k \in {x \in DOMAIN media : x[1] # c} |-> media[k]]
       /\ UNCHANGED <<chat_config, step_state, auth_text, pending_inputs, buttons,
                      now, budget>>

\* /cancelar
cancelar_cmd(chat, u) ==
    LET c == get_open_case(cases, chat, u)
    IN /\ cases' = IF c = NULL THEN cases
                   ELSE update_case(cases, c, [status |-> "CANCELLED", phase |-> "CANCELLED",
                                               finished_at |-> now])
       /\ UNCHANGED <<chat_config, step_state, media, auth_text, pending_inputs, buttons,
                      now, budget>>

\* /estado
estado_cmd(chat, u) ==
    /\ chat_config' = IF get_open_case(cases, chat, u) = NULL THEN chat_config
                      ELSE touch_approval(chat_config, chat)
    /\ UNCHANGED <<cases, step_state, media, auth_text, pending_inputs, buttons, now, budget>>

ApprovalArgs == {"", "on", "off", "?"}

\* /aprobacion [on|off], from any member of the chat
aprobacion_cmd(chat, arg) ==
    /\ chat_config' = CASE arg = "" -> touch_approval(chat_config, chat)
                        [] arg = "on" -> set_approval_required(chat_config, chat, 1)
                        [] arg = "off" -> set_approval_required(chat_config, chat, 0)
                        [] OTHER -> chat_config
    /\ UNCHANGED <<cases, step_state, media, auth_text, pending_inputs, buttons, now, budget>>

(* ------------------------------ callbacks ------------------------------ *)

\* TECH|name
on_callbacks_TECH(chat, u, name) ==
    /\ Button("TECH", chat, 0, 0, 0) \in buttons
    /\ LET c == get_open_case(cases, chat, u)
       IN IF c = NULL \/ cases[c].step_index # 0 THEN UNCHANGED vars
          ELSE /\ cases' = update_case(cases, c, [technician_name |-> name, step_index |-> 1,
                                                  phase |-> "WAIT_SERVICE"])
               /\ buttons' = buttons \cup {Button("SERV", chat, 0, 0, 0)}
               /\ UNCHANGED <<chat_config, step_state, media, auth_text, pending_inputs,
                              now, budget>>

\* SERV|service
on_callbacks_SERV(chat, u, service) ==
    /\ Button("SERV", chat, 0, 0, 0) \in buttons
    /\ LET c == get_open_case(cases, chat, u)
       IN IF c = NULL \/ cases[c].step_index # 1 THEN UNCHANGED vars
          ELSE /\ cases' = update_case(cases, c, [service_type |-> service, step_index |-> 2,
                                                  phase |-> "WAIT_ABONADO"])
               /\ UNCHANGED <<chat_config, step_state, media, auth_text, pending_inputs,
                              buttons, now, budget>>

\* faulty variant: no check of the presser against the technician of the case
on_callbacks_AUTH_ASK_anyone(chat, u, c, s, yn) ==
    /\ Button("AUTH_ASK", chat, c, s, 0) \in buttons
    /\ IF cases[c].status # "OPEN" THEN UNCHANGED vars
       ELSE /\ cases' = update_case(cases, c,
                            [phase |-> IF yn = "NO" THEN "STEP_MEDIA" ELSE "AUTH_MODE",
                             pending_step_no |-> s])
            /\ buttons' = IF yn = "NO" THEN buttons
                          ELSE buttons \cup {Button("AUTH_MODE", chat, c, s, 0)}
            /\ UNCHANGED <<chat_config, step_state, media, auth_text, pending_inputs,
                           now, budget>>

\* AUTH_ASK|case|step|YES/NO
on_callbacks_AUTH_ASK(chat, u, c, s, yn) ==
    /\ Button("AUTH_ASK", chat, c, s, 0) \in buttons
    /\ IF cases[c].status # "OPEN" \/ cases[c].user_id # u THEN UNCHANGED vars
       ELSE /\ cases' = update_case(cases, c,
                            [phase |-> IF yn = "NO" THEN "STEP_MEDIA" ELSE "AUTH_MODE",
                             pending_step_no |-> s])
            /\ buttons' = IF yn = "NO" THEN buttons
                          ELSE buttons \cup {Button("AUTH_MODE", chat, c, s, 0)}
            /\ UNCHANGED <<chat_config, step_state, media, auth_text, pending_inputs,
                           now, budget>>

\* AUTH_MODE|case|step|TEXT/MEDIA
on_callbacks_AUTH_MODE(chat, u, c, s, mode) ==
    /\ Button("AUTH_MODE", chat, c, s, 0) \in buttons
    /\ IF cases[c].status # "OPEN" \/ cases[c].user_id # u THEN UNCHANGED vars
       ELSE /\ cases' = update_case(cases, c,
                            [phase |-> IF mode = "TEXT" THEN "AUTH_TEXT_WAIT" ELSE "AUTH_MEDIA",
                             pending_step_no |-> s])
            /\ UNCHANGED <<chat_config, step_state, media, auth_text, pending_inputs,
                           buttons, now, budget>>

\* AUTH_MORE / MEDIA_MORE: only answers the press
on_callbacks_MORE(chat, u, kind, c, s) ==
    /\ Button(kind, chat, c, s, 0) \in buttons
    /\ UNCHANGED vars

\* the common body of AUTH_DONE (step_no = -s) and MEDIA_DONE (step_no = s)
Done(chat, u, c, s, step_no, review) ==
    IF cases[c].status # "OPEN" \/ cases[c].user_id # u THEN UNCHANGED vars
    ELSE LET a == ensure_attempt(step_state, c, step_no)
             st == ensure_step_state(step_state, c, step_no)
             ins == st # step_state
         IN /\ ins => budget.rows > 0
            /\ budget' = [budget EXCEPT !.rows = IF ins THEN @ - 1 ELSE @]
            /\ IF st[<<c, step_no, a>>].submitted = 1 \/ media_count(media, c, step_no, a) <= 0
               THEN /\ step_state' = st
                    /\ UNCHANGED buttons
               ELSE /\ step_state' = mark_submitted(st, c, step_no, a)
                    /\ buttons' = buttons \cup {Button(review, chat, c, s, a)}
            /\ UNCHANGED <<cases, chat_config, media, auth_text, pending_inputs, now>>

\* AUTH_DONE|case|step
on_callbacks_AUTH_DONE(chat, u, c, s) ==
    /\ Button("AUTH_CTRL", chat, c, s, 0) \in buttons
    /\ Done(chat, u, c, s, -s, "AUT")

\* MEDIA_DONE|case|step
on_callbacks_MEDIA_DONE(chat, u, c, s) ==
    /\ Button("MEDIA_CTRL", chat, c, s, 0) \in buttons
    /\ Done(chat, u, c, s, s, "REV")

\* faulty variant: a reviewed attempt can be reviewed again
Refused_again(chat, u, c, step_no, a, reachable) ==
    \/ ~is_admin_of_chat(u, reachable)
    \/ cases[c].status # "OPEN"
    \/ <<c, step_no, a>> \notin DOMAIN step_state

\* the checks of a review press: administrator, case OPEN, attempt found, not yet reviewed
Refused(chat, u, c, step_no, a, reachable) ==
    \/ ~is_admin_of_chat(u, reachable)
    \/ cases[c].status # "OPEN"
    \/ <<c, step_no, a>> \notin DOMAIN step_state
    \/ step_state[<<c, step_no, a>>].approved # NULL

\* AUT_OK|case|step|attempt; f = 1: answer or edit_message_text raises, after set_review
on_callbacks_AUT_OK(chat, u, c, s, a, reachable, f) ==
    /\ Button("AUT", chat, c, s, a) \in buttons
    /\ IF Refused(chat, u, c, -s, a, reachable) THEN UNCHANGED vars
       ELSE /\ step_state' = set_review(step_state, c, -s, a, 1, u)
            /\ cases' = IF f = 1 THEN cases
                        ELSE update_case(cases, c, [phase |-> "STEP_MEDIA", pending_step_no |-> s])
            /\ UNCHANGED <<chat_config, media, auth_text, pending_inputs, buttons, now, budget>>

\* faulty variant: the press itself records the rejection and re-asks
on_callbacks_AUT_BAD_final(chat, u, c, s, a, reachable, f) ==
    /\ Button("AUT", chat, c, s, a) \in buttons
    /\ IF Refused(chat, u, c, -s, a, reachable) \/ f = 1 THEN UNCHANGED vars
       ELSE /\ step_state' = set_review(step_state, c, -s, a, 0, u)
            /\ cases' = update_case(cases, c, [phase |-> "AUTH_ASK", pending_step_no |-> s])
            /\ UNCHANGED <<chat_config, media, auth_text, pending_inputs, buttons, now, budget>>

\* AUT_BAD|case|step|attempt; f = 1: answer raises, before set_pending_input
on_callbacks_AUT_BAD(chat, u, c, s, a, reachable, f) ==
    /\ Button("AUT", chat, c, s, a) \in buttons
    /\ IF Refused(chat, u, c, -s, a, reachable) \/ f = 1 THEN UNCHANGED vars
       ELSE /\ pending_inputs' = set_pending_input(pending_inputs, chat, u,
                                    PendingRow(c, s, a, <<c, s, a>>, cases[c].user_id, now))
            /\ UNCHANGED <<cases, chat_config, step_state, media, auth_text, buttons, now, budget>>

\* faulty variant: the approval of any step closes the case
on_callbacks_REV_OK_close(chat, u, c, s, a, reachable, f) ==
    /\ Button("REV", chat, c, s, a) \in buttons
    /\ IF Refused(chat, u, c, s, a, reachable) THEN UNCHANGED vars
       ELSE /\ step_state' = set_review(step_state, c, s, a, 1, u)
            /\ cases' = IF f = 1 THEN cases
                        ELSE update_case(cases, c,
                                [status |-> "CLOSED", phase |-> "CLOSED",
                                 finished_at |-> now, pending_step_no |-> NULL])
            /\ UNCHANGED <<chat_config, media, auth_text, pending_inputs, buttons, now, budget>>

\* REV_OK|case|step|attempt; f = 1: answer (or, before the last step,
\* edit_message_text) raises, after set_review
on_callbacks_REV_OK(chat, u, c, s, a, reachable, f) ==
    /\ Button("REV", chat, c, s, a) \in buttons
    /\ IF Refused(chat, u, c, s, a, reachable) THEN UNCHANGED vars
       ELSE /\ step_state' = set_review(step_state, c, s, a, 1, u)
            /\ IF s >= STEP_LAST_MEDIA
               THEN /\ cases' = IF f = 1 THEN cases
                                ELSE update_case(cases, c,
                                        [status |-> "CLOSED", phase |-> "CLOSED",
                                         finished_at |-> now, pending_step_no |-> NULL])
                    /\ UNCHANGED buttons
               ELSE /\ cases' = IF f = 1 THEN cases
                                ELSE update_case(cases, c, [phase |-> "AUTH_ASK",
                                                            pending_step_no |-> s + 1])
                    /\ buttons' = IF f = 1 THEN buttons
                                  ELSE buttons \cup {Button("AUTH_ASK", chat, c, s + 1, 0)}
            /\ UNCHANGED <<chat_config, media, auth_text, pending_inputs, now, budget>>

\* variant that calls ensure_step_state as part of the rejection
on_callbacks_REV_BAD_ensure(chat, u, c, s, a, reachable, deleted, f) ==
    /\ Button("REV", chat, c, s, a) \in buttons
    /\ IF Refused(chat, u, c, s, a, reachable) THEN UNCHANGED vars
       ELSE /\ step_state' = ensure_step_state(set_review(step_state, c, s, a, 0, u), c, s)
            /\ media' = delete_media_rows(media, c, s, a)
            /\ cases' = IF f = 1 THEN cases
                        ELSE update_case(cases, c, [phase |-> "STEP_MEDIA", pending_step_no |-> s])
            /\ UNCHANGED <<chat_config, auth_text, pending_inputs, buttons, now, budget>>

\* REV_BAD|case|step|attempt; deleted: delete_message returned (a refusal is
\* caught and only changes the wording of the edit);
\* f = 1: edit_message_text raises, after delete_media_rows
on_callbacks_REV_BAD(chat, u, c, s, a, reachable, deleted, f) ==
    /\ Button("REV", chat, c, s, a) \in buttons
    /\ IF Refused(chat, u, c, s, a, reachable) THEN UNCHANGED vars
       ELSE /\ step_state' = set_review(step_state, c, s, a, 0, u)
            /\ media' = delete_media_rows(media, c, s, a)
            /\ cases' = IF f = 1 THEN cases
                        ELSE update_case(cases, c, [phase |-> "STEP_MEDIA", pending_step_no |-> s])
            /\ UNCHANGED <<chat_config, auth_text, pending_inputs, buttons, now, budget>>

(* --------------------------- message handlers -------------------------- *)

InRange(s) == ~(s < STEP_FIRST_MEDIA \/ s > STEP_LAST_MEDIA)

\* on_text, a pending AUTH_REJECT_REASON of this user; deleted: delete_message
\* returned (a refusal is caught and only changes the wording of the notice);
\* f = 1: the send_message before set_pending_input (empty reason), or the one
\* before update_case, raises
RejectReason(chat, u, p, text, deleted, f) ==
    LET reason == Strip(text)
        c == p.case_id
        s == p.step_no
        a == p.attempt
        popped == pop_pending_input(pending_inputs, chat, u)
    IN IF reason = << >>
       THEN /\ pending_inputs' = IF f = 1 THEN popped
                                 ELSE set_pending_input(popped, chat, u,
                                        PendingRow(c, s, a, p.reply_to_message_id,
                                                   p.tech_user_id, now))
            /\ UNCHANGED <<cases, chat_config, step_state, media, auth_text, buttons, now, budget>>
       ELSE IF cases[c].status # "OPEN"
       THEN /\ pending_inputs' = popped
            /\ UNCHANGED <<cases, chat_config, step_state, media, auth_text, buttons, now, budget>>
       ELSE /\ pending_inputs' = popped
            /\ step_state' = set_reject_reason(set_review(step_state, c, -s, a, 0, u),
                                               c, -s, a, reason, u)
            /\ media' = delete_media_rows(media, c, -s, a)
            /\ cases' = IF f = 1 THEN cases
                        ELSE update_case(cases, c, [phase |-> "AUTH_ASK", pending_step_no |-> s])
            /\ buttons' = IF f = 1 THEN buttons
                          ELSE buttons \cup {Button("AUTH_ASK", chat, c, s, 0)}
            /\ UNCHANGED <<chat_config, auth_text, now, budget>>

\* on_text in phase AUTH_TEXT_WAIT
AuthText(chat, u, c, text) ==
    LET s == IF cases[c].pending_step_no = NULL THEN 0 ELSE cases[c].pending_step_no
        a == ensure_attempt(step_state, c, -s)
        st == ensure_step_state(step_state, c, -s)
        ins == st # step_state
    IN IF ~InRange(s) \/ Strip(text) = << >> THEN UNCHANGED vars
       ELSE /\ ins => budget.rows > 0
            /\ budget' = [budget EXCEPT !.rows = IF ins THEN @ - 1 ELSE @]
            /\ auth_text' = save_auth_text(auth_text, c, s, a, Strip(text))
            /\ step_state' = mark_submitted(st, c, -s, a)
            /\ cases' = update_case(cases, c, [phase |-> "AUTH_REVIEW", pending_step_no |-> s])
            /\ buttons' = buttons \cup {Button("AUT", chat, c, s, a)}
            /\ UNCHANGED <<chat_config, media, pending_inputs, now>>

\* on_text, PASO 3
Abonado(chat, u, c, text) ==
    IF cases[c].step_index # 2 \/ Strip(text) = << >> THEN UNCHANGED vars
    ELSE /\ cases' = update_case(cases, c, [abonado_code |-> Strip(text), step_index |-> 3,
                                            phase |-> "WAIT_LOCATION"])
         /\ UNCHANGED <<chat_config, step_state, media, auth_text, pending_inputs, buttons,
                        now, budget>>

on_text(chat, u, text, deleted, f) ==
    LET pending == pending_of(pending_inputs, chat, u)
        c == get_open_case(cases, chat, u)
    IN IF pending # {} THEN RejectReason(chat, u, latest_pending(pending_inputs, chat, u), text, deleted, f)
       ELSE IF c = NULL THEN UNCHANGED vars
       ELSE IF cases[c].phase = "AUTH_TEXT_WAIT" THEN AuthText(chat, u, c, text)
       ELSE Abonado(chat, u, c, text)

\* faulty variant: the location is taken at any position of the form
on_location_unordered(chat, u) ==
    LET c == get_open_case(cases, chat, u)
    IN IF c = NULL THEN UNCHANGED vars
       ELSE /\ cases' = update_case(cases, c, [location_at |-> now, step_index |-> 4,
                                               phase |-> "AUTH_ASK",
                                               pending_step_no |-> STEP_FIRST_MEDIA])
            /\ buttons' = buttons \cup {Button("AUTH_ASK", chat, c, STEP_FIRST_MEDIA, 0)}
            /\ UNCHANGED <<chat_config, step_state, media, auth_text, pending_inputs,
                           now, budget>>

\* PASO 4
on_location(chat, u) ==
    LET c == get_open_case(cases, chat, u)
    IN IF c = NULL \/ cases[c].step_index # 3 THEN UNCHANGED vars
       ELSE /\ cases' = update_case(cases, c, [location_at |-> now, step_index |-> 4,
                                               phase |-> "AUTH_ASK",
                                               pending_step_no |-> STEP_FIRST_MEDIA])
            /\ buttons' = buttons \cup {Button("AUTH_ASK", chat, c, STEP_FIRST_MEDIA, 0)}
            /\ UNCHANGED <<chat_config, step_state, media, auth_text, pending_inputs,
                           now, budget>>

\* photo / video; maybe_copy_to_group is guarded
on_media(chat, u) ==
    LET c == get_open_case(cases, chat, u)
    IN IF c = NULL THEN UNCHANGED vars
       ELSE LET phase == cases[c].phase
                pending_step_no == IF cases[c].pending_step_no = NULL THEN 0
                                   ELSE cases[c].pending_step_no
                step_no_to_store == IF phase = "AUTH_MEDIA" THEN -pending_step_no
                                    ELSE pending_step_no
                controls == Button(IF phase = "AUTH_MEDIA" THEN "AUTH_CTRL" ELSE "MEDIA_CTRL",
                                   chat, c, pending_step_no, 0)
                a == ensure_attempt(step_state, c, step_no_to_store)
                st == ensure_step_state(step_state, c, step_no_to_store)
                ins == st # step_state
            IN IF phase \notin {"AUTH_MEDIA", "STEP_MEDIA"} \/ ~InRange(pending_step_no)
               THEN UNCHANGED vars
               ELSE /\ ins => budget.rows > 0
                    /\ step_state' = st
                    /\ buttons' = buttons \cup {controls}
                    /\ IF st[<<c, step_no_to_store, a>>].submitted = 1
                          \/ media_count(media, c, step_no_to_store, a) >= MAX_MEDIA_PER_STEP
                       THEN /\ budget' = [budget EXCEPT !.rows = IF ins THEN @ - 1 ELSE @]
                            /\ UNCHANGED media
                       ELSE /\ budget.media > 0
                            /\ budget' = [rows |-> IF ins THEN budget.rows - 1 ELSE budget.rows,
                                          media |-> budget.media - 1]
                            /\ media' = add_media(media, c, step_no_to_store, a, now)
                    /\ UNCHANGED <<cases, chat_config, auth_text, pending_inputs, now>>

(* ----------------------------- specification --------------------------- *)

\* the buttons of some kinds that are in the chat
Pressed(kinds) == {b \in buttons : b[1] \in kinds}

\* get_chat_member answers or raises; only an administrator's answer differs
Reachable(u) == IF u \in Admins THEN BOOLEAN ELSE {TRUE}

\* on_text makes an unguarded call before a write only when a reason is pending
Failures(ch, u) == IF pending_of(pending_inputs, ch, u) = {} THEN {0} ELSE 0..1

\* on_text calls delete_message only when a reason is pending
Deletions(ch, u) == IF pending_of(pending_inputs, ch, u) = {} THEN {TRUE} ELSE BOOLEAN

Next ==
    \/ \E ch \in Chats, u \in Openers : inicio_cmd(ch, u)
    \/ \E ch \in Chats, u \in Users : cancelar_cmd(ch, u)
    \/ \E ch \in Chats, u \in Users : estado_cmd(ch, u)
    \/ \E ch \in Chats, arg \in ApprovalArgs : aprobacion_cmd(ch, arg)
    \/ \E ch \in Chats, u \in Users, i \in DOMAIN TECHNICIANS :
            on_callbacks_TECH(ch, u, TECHNICIANS[i])
    \/ \E ch \in Chats, u \in Users, i \in DOMAIN SERVICE_TYPES :
            on_callbacks_SERV(ch, u, SERVICE_TYPES[i])
    \/ \E u \in Users, b \in Pressed({"AUTH_ASK"}), yn \in {"YES", "NO"} :
            on_callbacks_AUTH_ASK(b[2], u, b[3], b[4], yn)
    \/ \E u \in Users, b \in Pressed({"AUTH_MODE"}), mode \in {"TEXT", "MEDIA"} :
            on_callbacks_AUTH_MODE(b[2], u, b[3], b[4], mode)
    \/ \E u \in Users, b \in Pressed({"AUTH_CTRL", "MEDIA_CTRL"}) :
            on_callbacks_MORE(b[2], u, b[1], b[3], b[4])
    \/ \E u \in Users, b \in Pressed({"AUTH_CTRL"}) : on_callbacks_AUTH_DONE(b[2], u, b[3], b[4])
    \/ \E u \in Users, b \in Pressed({"MEDIA_CTRL"}) : on_callbacks_MEDIA_DONE(b[2], u, b[3], b[4])
    \/ \E u \in Users : \E b \in Pressed({"AUT"}), r \in Reachable(u), f \in 0..1 :
            on_callbacks_AUT_OK(b[2], u, b[3], b[4], b[5], r, f)
    \/ \E u \in Users : \E b \in Pressed({"AUT"}), r \in Reachable(u), f \in 0..1 :
            on_callbacks_AUT_BAD(b[2], u, b[3], b[4], b[5], r, f)
    \/ \E u \in Users : \E b \in Pressed({"REV"}), r \in Reachable(u), f \in 0..1 :
            on_callbacks_REV_OK(b[2], u, b[3], b[4], b[5], r, f)
    \/ \E u \in Users : \E b \in Pressed({"REV"}), r \in Reachable(u), d \in BOOLEAN, f \in 0..1 :
            on_callbacks_REV_BAD(b[2], u, b[3], b[4], b[5], r, d, f)
    \/ \E ch \in Chats, u \in Users :
            \E text \in Texts, d \in Deletions(ch, u), f \in Failures(ch, u) :
                on_text(ch, u, text, d, f)
    \/ \E ch \in Chats, u \in Users : on_location(ch, u)
    \/ \E ch \in Chats, u \in Users : on_media(ch, u)

Spec == Init /\ [][Next]_vars

\* the command handlers alone, in every chat that has or may get a chat_config row
NextConfig ==
    \/ \E ch \in ConfigChats, u \in Openers : inicio_cmd(ch, u)
    \/ \E ch \in ConfigChats, u \in Users : cancelar_cmd(ch, u)
    \/ \E ch \in ConfigChats, u \in Users : estado_cmd(ch, u)
    \/ \E ch \in ConfigChats, arg \in ApprovalArgs : aprobacion_cmd(ch, arg)

SpecConfig == InitFresh /\ [][NextConfig]_vars

(* ------------------- one case, collected without detour ---------------- *)

\* attempts the collection of one case inserts when no attempt is rejected
CollectRows == STEP_LAST_MEDIA - STEP_FIRST_MEDIA + 1

\* the bot starts on an empty database; one item more than one per step is
\* stored, at any step that leaves one item for each later step
InitCollect ==
    /\ cases = << >>
    /\ chat_config = [ch \in ConfigChats |-> NULL]
    /\ step_state = NoRows
    /\ media = [k \in {} |-> << >>]
    /\ auth_text = {}
    /\ pending_inputs = [k \in Chats \X Users |-> {}]
    /\ buttons = {}
    /\ now = 0
    /\ budget = [rows |-> CollectRows, media |-> CollectRows + 1]

\* the administrator who reviews this case
Reviewers == {2}

\* the case of the pair is asking for, or collecting, step s and no attempt
\* of the step has been submitted yet
Collecting(ch, u, s, phases) ==
    LET c == get_open_case(cases, ch, u)
    IN /\ c # NULL
       /\ cases[c].phase \in phases
       /\ cases[c].pending_step_no = s
       /\ \A a \in Attempts(step_state, c, s) : step_state[<<c, s, a>>].submitted = 0

\* nothing is stored yet for step s of the case of the pair
FirstItem(ch, u, s) ==
    LET c == get_open_case(cases, ch, u)
    IN \A a \in Attempts(step_state, c, s) : media_count(media, c, s, a) = 0

\* the handlers as one technician and the reviewers drive them when the case
\* is opened once, the form is answered, every authorization is declined,
\* every step is sent at least one item and submitted once, and every
\* submitted attempt is approved
NextCollect ==
    \/ \E ch \in Chats, u \in Openers : cases = << >> /\ inicio_cmd(ch, u)
    \/ \E ch \in Chats, u \in Openers, i \in DOMAIN TECHNICIANS :
            on_callbacks_TECH(ch, u, TECHNICIANS[i])
    \/ \E ch \in Chats, u \in Openers, i \in DOMAIN SERVICE_TYPES :
            on_callbacks_SERV(ch, u, SERVICE_TYPES[i])
    \/ \E ch \in Chats, u \in Openers, text \in Texts : on_text(ch, u, text, TRUE, 0)
    \/ \E ch \in Chats, u \in Openers : on_location(ch, u)
    \/ \E u \in Openers, b \in Pressed({"AUTH_ASK"}) :
            /\ Collecting(b[2], u, b[4], {"AUTH_ASK"})
            /\ on_callbacks_AUTH_ASK(b[2], u, b[3], b[4], "NO")
    \/ \E ch \in Chats, u \in Openers, s \in EvidenceSteps :
            /\ Collecting(ch, u, s, {"STEP_MEDIA"})
            /\ FirstItem(ch, u, s) \/ budget.media > STEP_LAST_MEDIA - s
            /\ on_media(ch, u)
    \/ \E u \in Openers, b \in Pressed({"MEDIA_CTRL"}) :
            /\ Collecting(b[2], u, b[4], {"STEP_MEDIA"})
            /\ on_callbacks_MEDIA_DONE(b[2], u, b[3], b[4])
    \/ \E u \in Reviewers : \E b \in Pressed({"REV"}), r \in Reachable(u), f \in 0..1 :
            on_callbacks_REV_OK(b[2], u, b[3], b[4], b[5], r, f)

\* every update that is sent is handled: the application keeps polling
SpecCollect == InitCollect /\ [][NextCollect]_vars /\ WF_vars(NextCollect)

(* ------------------------------ properties ----------------------------- *)

OpenCases(ch, u) ==
    {c \in CaseIds(cases) : /\ cases[c].chat_id = ch
                            /\ cases[c].user_id = u
                            /\ cases[c].status = "OPEN"}

\* C1: in every reachable state each (chat, technician) pair has at most one
\* case with status OPEN.
C1_OneOpenCase == \A ch \in Chats, u \in Users : Cardinality(OpenCases(ch, u)) <= 1

\* a second /inicio found the OPEN case of the pair and reset it
C1_Witness ==
    /\ now = 2
    /\ Len(cases) = 1
    /\ cases[1].status = "OPEN"
    /\ cases[1].created_at = 2

\* C2: in every reachable state the attempt numbers of each (case, step) are
\* exactly 1..n, and at most one of these attempts is unsubmitted.
C2_AttemptsDense ==
    \A k \in DOMAIN step_state :
        /\ {x[3] : x \in {y \in DOMAIN step_state : y[1] = k[1] /\ y[2] = k[2]}}
              = 1..Max({x[3] : x \in {y \in DOMAIN step_state : y[1] = k[1] /\ y[2] = k[2]}})
        /\ Cardinality({x \in DOMAIN step_state :
                           /\ x[1] = k[1]
                           /\ x[2] = k[2]
                           /\ step_state[x].submitted = 0}) <= 1

\* a second attempt was created, one past a first that is submitted and reviewed
C2_Witness ==
    \E k \in DOMAIN step_state :
        /\ k[3] = 2
        /\ step_state[k].submitted = 0
        /\ step_state[<<k[1], k[2], 1>>].submitted = 1
        /\ step_state[<<k[1], k[2], 1>>].approved = 0

\* C3: once the approved field of an attempt has left NULL, no step changes
\* approved or the recorded reviewer of that attempt.
C3_ReviewedOnce ==
    [][\A k \in DOMAIN step_state :
          step_state[k].approved # NULL =>
              /\ k \in DOMAIN step_state'
              /\ step_state'[k].approved = step_state[k].approved
              /\ step_state'[k].reviewed_by = step_state[k].reviewed_by]_vars

\* the attempt a review button is about
AttemptOf(b) == <<b[3], IF b[1] = "AUT" THEN -b[4] ELSE b[4], b[5]>>

\* attempt k carries the decision of a reviewer other than u
DecidedByOther(k, u) ==
    /\ k \in DOMAIN step_state
    /\ step_state[k].approved # NULL
    /\ step_state[k].reviewed_by # u

\* C4: when an attempt already carries the decision of one reviewer, the review
\* action of a second reviewer on it (a review button, or the reason text that
\* completes an AUT_BAD press) changes neither the attempt nor the case nor the
\* media ledger.
C4_OneReviewTakesEffect ==
    [][/\ \A u \in Admins, b \in Pressed({"AUT"}), f \in 0..1 :
            ( /\ DecidedByOther(AttemptOf(b), u)
              /\ \/ on_callbacks_AUT_OK(b[2], u, b[3], b[4], b[5], TRUE, f)
                 \/ on_callbacks_AUT_BAD(b[2], u, b[3], b[4], b[5], TRUE, f) )
            => UNCHANGED <<cases, step_state, media, pending_inputs>>
       /\ \A u \in Admins, b \in Pressed({"REV"}), f \in 0..1 :
            ( /\ DecidedByOther(AttemptOf(b), u)
              /\ \/ on_callbacks_REV_OK(b[2], u, b[3], b[4], b[5], TRUE, f)
                 \/ \E d \in BOOLEAN :
                       on_callbacks_REV_BAD(b[2], u, b[3], b[4], b[5], TRUE, d, f) )
            => UNCHANGED <<cases, step_state, media, pending_inputs>>
       /\ \A ch \in Chats, u \in Admins, text \in Texts, f \in 0..1 :
            \A p \in pending_of(pending_inputs, ch, u) :
                ( /\ DecidedByOther(<<p.case_id, -p.step_no, p.attempt>>, u)
                  /\ \E d \in BOOLEAN : on_text(ch, u, text, d, f) )
                => UNCHANGED <<cases, step_state, media>>]_vars

\* this step records a first decision on attempt k
Rejects(k) ==
    /\ step_state[k].approved = NULL
    /\ k \in DOMAIN step_state'
    /\ step_state'[k].approved = 0

Approves(k) ==
    /\ step_state[k].approved = NULL
    /\ k \in DOMAIN step_state'
    /\ step_state'[k].approved = 1

\* C5: after a reviewer rejects a submitted evidence attempt (case, step, n) the
\* media ledger holds no item of it, the attempt has approved = false, and the
\* case is in phase STEP_MEDIA with the pointer on that step.
C5_RejectedEvidence ==
    [][\A k \in DOMAIN step_state :
          (k[2] > 0 /\ step_state[k].submitted = 1 /\ Rejects(k)) =>
              /\ k \notin DOMAIN media'
              /\ step_state'[k].approved = 0
              /\ cases'[k[1]].phase = "STEP_MEDIA"
              /\ cases'[k[1]].pending_step_no = k[2]]_vars

C7_LastStepCloses ==
    [][/\ \A k \in DOMAIN step_state :
            (k[2] = STEP_LAST_MEDIA /\ cases[k[1]].status = "OPEN" /\ Approves(k)) =>
                /\ cases'[k[1]].status = "CLOSED"
                /\ cases'[k[1]].phase = "CLOSED"
                /\ cases'[k[1]].pending_step_no = NULL
                /\ cases'[k[1]].finished_at # NULL
       /\ \A c \in CaseIds(cases) :
            (cases[c].status # "CLOSED" /\ cases'[c].status = "CLOSED") =>
                \E k \in DOMAIN step_state :
                    k[1] = c /\ k[2] = STEP_LAST_MEDIA /\ Approves(k)]_vars

Terminal(c) == cases[c].status \in {"CLOSED", "CANCELLED"}

\* the rows of a table that belong to case c
RowsOf(table, c) == [k \in {x \in DOMAIN table : x[1] = c} |-> table[k]]

\* C8: once a case is CLOSED or CANCELLED no step changes its row, its
\* attempts, its media or its authorization texts; a case that /inicio opens
\* afterwards is another row.
C8_TerminalFrozen ==
    [][\A c \in CaseIds(cases) :
          Terminal(c) =>
              /\ c \in CaseIds(cases')
              /\ cases'[c] = cases[c]
              /\ RowsOf(step_state', c) = RowsOf(step_state, c)
              /\ RowsOf(media', c) = RowsOf(media, c)
              /\ {t \in auth_text' : t.case_id = c} = {t \in auth_text : t.case_id = c}]_vars

\* case 1 was cancelled with an attempt on record, and the /inicio that
\* followed opened case 2, which has moved on
C8_Witness ==
    /\ Len(cases) = 2
    /\ Terminal(1)
    /\ \E k \in DOMAIN step_state : k[1] = 1
    /\ cases[2].status = "OPEN"
    /\ cases[2].step_index > 0

\* C9: approving an unreviewed evidence attempt of a step s, 5 <= s < 15,
\* leaves the case OPEN, in phase AUTH_ASK with the pointer on s + 1.
C9_NextStepAsked ==
    [][\A k \in DOMAIN step_state :
          ( /\ k[2] >= STEP_FIRST_MEDIA
            /\ k[2] < STEP_LAST_MEDIA
            /\ cases[k[1]].status = "OPEN"
            /\ Approves(k) ) =>
              /\ cases'[k[1]].status = "OPEN"
              /\ cases'[k[1]].phase = "AUTH_ASK"
              /\ cases'[k[1]].pending_step_no = k[2] + 1]_vars

\* C10: no attempt ever holds more than 8 media items.
C10_MediaCap == \A k \in DOMAIN media : Len(media[k]) <= 8

\* the open attempt of the step being collected holds 8 items and the next
\* media event can still be paid for: it is the cap that refuses it
C10_Witness ==
    \E k \in DOMAIN media :
        /\ Len(media[k]) = 8
        /\ step_state[k].submitted = 0
        /\ cases[k[1]].status = "OPEN"
        /\ cases[k[1]].phase = "STEP_MEDIA"
        /\ cases[k[1]].pending_step_no = k[2]
        /\ budget.media > 0

\* C11: when the text consumed for a pending rejection reason is blank, the
\* pending request of (chat, actor) is afterwards what it was before (same case,
\* step, attempt, reply-to message and technician), and the targeted attempt's
\* approved and reject_reason and the phase of the case are unchanged.
C11_EmptyReasonRearms ==
    [][\A ch \in Chats, u \in Users, text \in Texts, d \in BOOLEAN, f \in 0..1 :
          ( /\ pending_of(pending_inputs, ch, u) # {}
            /\ Strip(text) = << >>
            /\ on_text(ch, u, text, d, f) )
          => /\ \A p \in pending_of(pending_inputs, ch, u) :
                    \E q \in pending_of(pending_inputs', ch, u) :
                        /\ q.case_id = p.case_id
                        /\ q.step_no = p.step_no
                        /\ q.attempt = p.attempt
                        /\ q.reply_to_message_id = p.reply_to_message_id
                        /\ q.tech_user_id = p.tech_user_id
             /\ \A p \in pending_of(pending_inputs, ch, u) :
                    /\ step_state'[<<p.case_id, -p.step_no, p.attempt>>].approved
                          = step_state[<<p.case_id, -p.step_no, p.attempt>>].approved
                    /\ step_state'[<<p.case_id, -p.step_no, p.attempt>>].reject_reason
                          = step_state[<<p.case_id, -p.step_no, p.attempt>>].reject_reason
                    /\ cases'[p.case_id].phase = cases[p.case_id].phase]_vars

\* C12: in every reachable state an attempt whose approved field is set
\* (true or false) is a submitted attempt.
C12_ReviewedIsSubmitted ==
    \A k \in DOMAIN step_state :
        step_state[k].approved # NULL => step_state[k].submitted = 1

\* administrator 3 (who reviewed nothing before the run) has recorded a
\* decision on a submitted attempt
C12_Witness ==
    \E k \in DOMAIN step_state :
        /\ step_state[k].approved # NULL
        /\ step_state[k].reviewed_by = 3
        /\ step_state[k].submitted = 1

\* the attempt with the highest number of (case, step_no) is submitted and unreviewed
AwaitingReview(c, step_no) ==
    /\ Attempts(step_state, c, step_no) # {}
    /\ step_state[<<c, step_no, _max_attempt(step_state, c, step_no)>>].submitted = 1
    /\ step_state[<<c, step_no, _max_attempt(step_state, c, step_no)>>].approved = NULL

\* the step_no on_media stores under for case c
StoreStep(c) ==
    IF cases[c].phase = "AUTH_MEDIA" THEN -cases[c].pending_step_no
    ELSE cases[c].pending_step_no

\* C13: while the latest attempt of the step the case is collecting is
\* submitted and awaiting review, a media item from the technician stores no
\* media item and creates no attempt.
C13_SubmittedRefusesMedia ==
    [][\A ch \in Chats, u \in Users :
          ( /\ get_open_case(cases, ch, u) # NULL
            /\ cases[get_open_case(cases, ch, u)].phase \in {"AUTH_MEDIA", "STEP_MEDIA"}
            /\ AwaitingReview(get_open_case(cases, ch, u),
                              StoreStep(get_open_case(cases, ch, u)))
            /\ on_media(ch, u) )
          => /\ media' = media
             /\ DOMAIN step_state' = DOMAIN step_state]_vars

\* attempt k has at least one row in the media ledger md
HasMedia(md, k) == k \in DOMAIN md /\ Len(md[k]) > 0

\* the step_no a submit button is about
SubmitStep(b) == IF b[1] = "AUTH_CTRL" THEN -b[4] ELSE b[4]

\* user u presses the submit button b (MEDIA_DONE or AUTH_DONE)
Submit(b, u) ==
    \/ b[1] = "MEDIA_CTRL" /\ on_callbacks_MEDIA_DONE(b[2], u, b[3], b[4])
    \/ b[1] = "AUTH_CTRL" /\ on_callbacks_AUTH_DONE(b[2], u, b[3], b[4])

\* C14: an evidence attempt becomes submitted only while it has media; a
\* submit press (MEDIA_DONE, AUTH_DONE) whose attempt has no media leaves that
\* attempt unsubmitted; a submit press by the technician of an OPEN case whose
\* unsubmitted attempt has at least one item sets submitted.
C14_SubmitNeedsMedia ==
    [][/\ \A k \in DOMAIN step_state' :
            ( /\ k[2] > 0
              /\ step_state'[k].submitted = 1
              /\ (k \in DOMAIN step_state => step_state[k].submitted = 0) )
            => HasMedia(media, k) /\ HasMedia(media', k)
       /\ \A b \in Pressed({"AUTH_CTRL", "MEDIA_CTRL"}) :
            LET k == <<b[3], SubmitStep(b), ensure_attempt(step_state, b[3], SubmitStep(b))>>
            IN \A u \in Users :
                 \/ /\ (~HasMedia(media, k) /\ k \in DOMAIN step_state')
                          => step_state'[k].submitted = 0
                    /\ ( /\ k \in DOMAIN step_state
                         /\ HasMedia(media, k)
                         /\ step_state[k].submitted = 0
                         /\ cases[b[3]].status = "OPEN"
                         /\ cases[b[3]].user_id = u )
                          => step_state'[k].submitted = 1
                 \/ ~Submit(b, u)]_vars

\* a submit press found no media: attempt 2 of a step, opened by that press
\* after attempt 1 was rejected, is unsubmitted and has no media
C14_Witness ==
    \E k \in DOMAIN step_state :
        /\ k[3] = 2
        /\ step_state[k].submitted = 0
        /\ ~HasMedia(media, k)
        /\ step_state[<<k[1], k[2], 1>>].approved = 0

\* C15: a submit press (MEDIA_DONE or AUTH_DONE) issued while the latest
\* attempt of its (case, step) is submitted and awaiting review leaves the
\* database unchanged: no attempt row is created or modified.
C15_ResubmitRefused ==
    [][\A u \in Users, b \in Pressed({"AUTH_CTRL", "MEDIA_CTRL"}) :
          (AwaitingReview(b[3], SubmitStep(b)) /\ Submit(b, u))
          => UNCHANGED <<cases, chat_config, step_state, media, auth_text, pending_inputs>>]_vars

\* C16: a step that records an approval on an attempt of an OPEN case also
\* commits the advancement that belongs to it: STEP_MEDIA on the same step for
\* an authorization, CLOSED for the last step, AUTH_ASK on the next step otherwise.
C16_ApprovalAdvances ==
    [][\A k \in DOMAIN step_state :
          (cases[k[1]].status = "OPEN" /\ Approves(k)) =>
              IF k[2] < 0
              THEN /\ cases'[k[1]].phase = "STEP_MEDIA"
                   /\ cases'[k[1]].pending_step_no = -k[2]
              ELSE IF k[2] >= STEP_LAST_MEDIA
              THEN cases'[k[1]].status = "CLOSED"
              ELSE /\ cases'[k[1]].phase = "AUTH_ASK"
                   /\ cases'[k[1]].pending_step_no = k[2] + 1]_vars

\* C17: when delete_message is refused during a rejection, the rejection still
\* commits: the attempt has approved = false, the media ledger holds no item of
\* it, and the case is back on that step (phase STEP_MEDIA after an evidence
\* rejection, the authorization question AUTH_ASK after an authorization
\* rejection).
C17_RejectionCommitsUndeleted ==
    [][/\ \A u \in Users, b \in Pressed({"REV"}), f \in 0..1 :
            ( /\ Rejects(AttemptOf(b))
              /\ on_callbacks_REV_BAD(b[2], u, b[3], b[4], b[5], TRUE, FALSE, f) )
            => /\ step_state'[AttemptOf(b)].approved = 0
               /\ AttemptOf(b) \notin DOMAIN media'
               /\ cases'[b[3]].phase = "STEP_MEDIA"
               /\ cases'[b[3]].pending_step_no = b[4]
       /\ \A ch \in Chats, u \in Users, text \in Texts, f \in 0..1 :
            \A p \in pending_of(pending_inputs, ch, u) :
                ( /\ <<p.case_id, -p.step_no, p.attempt>> \in DOMAIN step_state
                  /\ Rejects(<<p.case_id, -p.step_no, p.attempt>>)
                  /\ on_text(ch, u, text, FALSE, f) )
                => /\ step_state'[<<p.case_id, -p.step_no, p.attempt>>].approved = 0
                   /\ <<p.case_id, -p.step_no, p.attempt>> \notin DOMAIN media'
                   /\ cases'[p.case_id].phase = "AUTH_ASK"
                   /\ cases'[p.case_id].pending_step_no = p.step_no]_vars

\* the initial state of a case row of (chat, technician)
InitialCase(row, ch, u) ==
    /\ row.chat_id = ch
    /\ row.user_id = u
    /\ row.status = "OPEN"
    /\ row.phase = "WAIT_TECHNICIAN"
    /\ row.step_index = 0
    /\ row.pending_step_no = NULL
    /\ row.finished_at = NULL
    /\ row.technician_name = NULL_NAME
    /\ row.service_type = NULL_NAME
    /\ row.abonado_code = NULL_TEXT
    /\ row.location_at = NULL

\* C18: /inicio from a (chat, technician) without an OPEN case appends one case
\* row in the initial state; with an OPEN case it appends none and puts that
\* same row back into the initial state.  No other case row changes.
C18_OpenCase ==
    [][\A ch \in Chats, u \in Users :
          inicio_cmd(ch, u) =>
              IF get_open_case(cases, ch, u) = NULL
              THEN /\ Len(cases') = Len(cases) + 1
                   /\ InitialCase(cases'[Len(cases) + 1], ch, u)
                   /\ \A c \in CaseIds(cases) : cases'[c] = cases[c]
              ELSE /\ Len(cases') = Len(cases)
                   /\ InitialCase(cases'[get_open_case(cases, ch, u)], ch, u)
                   /\ \A c \in CaseIds(cases) \ {get_open_case(cases, ch, u)} :
                          cases'[c] = cases[c]]_vars

\* the case opened by the first /inicio went through the form and received
\* media, and the second /inicio has put the same row back into the initial state
C18_Witness ==
    /\ Len(cases) = 1
    /\ cases[1].created_at = 2
    /\ InitialCase(cases[1], 1, 1)
    /\ \E k \in DOMAIN media : k[1] = 1

\* the form answer of (chat, technician) for position pos: accepted (value v
\* stored in field, position pos + 1) when the pair has an OPEN case at pos
\* and the answer is valid, otherwise no case row changes
Answered(ch, u, pos, field, v, valid) ==
    LET c == get_open_case(cases, ch, u)
    IN IF c # NULL /\ cases[c].step_index = pos /\ valid
       THEN /\ cases'[c][field] = v
            /\ cases'[c].step_index = pos + 1
            /\ \A d \in CaseIds(cases) \ {c} : cases'[d] = cases[d]
       ELSE cases' = cases

\* C19: the form is answered in order.  A technician button is accepted only at
\* position 0, a service button only at 1, a text taken as subscriber code (no
\* reason pending, case not waiting for an authorization text) only at 2, a
\* location only at 3; an accepted answer stores its value and moves the
\* position up by one, any other answer changes no case.  In no step does a
\* captured field receive a value, or the position move (other than back to 0),
\* in another way.
C19_FormInOrder ==
    [][/\ \A ch \in Chats, u \in Users :
            /\ \A i \in DOMAIN TECHNICIANS :
                  \/ Answered(ch, u, 0, "technician_name", TECHNICIANS[i], TRUE)
                  \/ ~on_callbacks_TECH(ch, u, TECHNICIANS[i])
            /\ \A i \in DOMAIN SERVICE_TYPES :
                  \/ Answered(ch, u, 1, "service_type", SERVICE_TYPES[i], TRUE)
                  \/ ~on_callbacks_SERV(ch, u, SERVICE_TYPES[i])
            /\ \A text \in Texts :
                  \/ Answered(ch, u, 2, "abonado_code", Strip(text), Strip(text) # << >>)
                  \/ ~( /\ pending_of(pending_inputs, ch, u) = {}
                        /\ get_open_case(cases, ch, u) # NULL
                              => cases[get_open_case(cases, ch, u)].phase # "AUTH_TEXT_WAIT"
                        /\ on_text(ch, u, text, TRUE, 0) )
            /\ \/ Answered(ch, u, 3, "location_at", now, TRUE)
               \/ ~on_location(ch, u)
       /\ \A c \in CaseIds(cases) :
            /\ cases'[c].technician_name \notin {cases[c].technician_name, NULL_NAME}
                  => cases[c].step_index = 0 /\ cases'[c].step_index = 1
            /\ cases'[c].service_type \notin {cases[c].service_type, NULL_NAME}
                  => cases[c].step_index = 1 /\ cases'[c].step_index = 2
            /\ cases'[c].abonado_code \notin {cases[c].abonado_code, NULL_TEXT}
                  => cases[c].step_index = 2 /\ cases'[c].step_index = 3
            /\ cases'[c].location_at \notin {cases[c].location_at, NULL}
                  => cases[c].step_index = 3 /\ cases'[c].step_index = 4
            /\ cases'[c].step_index \in {cases[c].step_index, cases[c].step_index + 1, 0}]_vars

\* a case opened in this run has its four answers and stands before step 5
C19_Witness ==
    \E c \in CaseIds(cases) :
        /\ cases[c].step_index = 4
        /\ cases[c].phase = "AUTH_ASK"
        /\ cases[c].pending_step_no = STEP_FIRST_MEDIA
        /\ cases[c].technician_name = TECHNICIANS[1]
        /\ cases[c].service_type = SERVICE_TYPES[1]
        /\ cases[c].abonado_code = <<"x">>
        /\ cases[c].location_at = now

\* C20: /cancelar from a technician with an OPEN case sets the status of that
\* case to CANCELLED and changes no other case, no attempt and no media item;
\* /cancelar without an OPEN case changes nothing.
C20_CancelCase ==
    [][\A ch \in Chats, u \in Users :
          \/ ~cancelar_cmd(ch, u)
          \/ IF get_open_case(cases, ch, u) = NULL
             THEN UNCHANGED vars
             ELSE /\ Len(cases') = Len(cases)
                  /\ cases'[get_open_case(cases, ch, u)].status = "CANCELLED"
                  /\ \A c \in CaseIds(cases) \ {get_open_case(cases, ch, u)} :
                         cases'[c] = cases[c]
                  /\ UNCHANGED <<step_state, media, auth_text>>]_vars

\* a case was cancelled while it had a submitted attempt and media on record
C20_Witness ==
    \E c \in CaseIds(cases) :
        /\ cases[c].status = "CANCELLED"
        /\ cases[c].finished_at # NULL
        /\ \E k \in DOMAIN media : k[1] = c /\ step_state[k].submitted = 1

\* C21: a step that approves an unreviewed authorization attempt for step s of
\* an OPEN case leaves the attempt approved and the case OPEN in phase
\* STEP_MEDIA with the pointer on s (not s + 1, not CLOSED).
C21_AuthorizationApproved ==
    [][\A k \in DOMAIN step_state :
          (k[2] < 0 /\ cases[k[1]].status = "OPEN" /\ Approves(k)) =>
              /\ step_state'[k].approved = 1
              /\ cases'[k[1]].status = "OPEN"
              /\ cases'[k[1]].phase = "STEP_MEDIA"
              /\ cases'[k[1]].pending_step_no = -k[2]]_vars

\* the pending request p is about attempt <<c, s, a>> of an authorization
Targets(p, c, s, a) == p.case_id = c /\ p.step_no = s /\ p.attempt = a

C23_ReasonFinalizes ==
    [][\A ch \in Chats, u \in Users, text \in Texts, d \in BOOLEAN, f \in 0..1 :
          \A p \in pending_of(pending_inputs, ch, u) :
              \/ /\ step_state'[<<p.case_id, -p.step_no, p.attempt>>].approved = 0
                 /\ step_state'[<<p.case_id, -p.step_no, p.attempt>>].reject_reason = Strip(text)
                 /\ p \notin pending_of(pending_inputs', ch, u)
                 /\ cases'[p.case_id].phase = "AUTH_ASK"
                 /\ cases'[p.case_id].pending_step_no = p.step_no
              \/ ~( /\ Strip(text) # << >>
                    /\ cases[p.case_id].status = "OPEN"
                    /\ on_text(ch, u, text, d, f) )]_vars

\* C24: in every reachable state a rejected authorization attempt has no row
\* in the media ledger and no authorization text in the store.
C24_RejectedAuthorizationPurged ==
    \A k \in DOMAIN step_state :
        (k[2] < 0 /\ step_state[k].approved = 0) =>
            /\ k \notin DOMAIN media
            /\ ~\E t \in auth_text :
                   t.case_id = k[1] /\ t.step_no = -k[2] /\ t.attempt = k[3]

\* the technician u of chat ch has an OPEN case waiting for an authorization
\* text, no reason pending, and the pointer on an evidence step
AwaitsAuthText(ch, u) ==
    /\ pending_of(pending_inputs, ch, u) = {}
    /\ get_open_case(cases, ch, u) # NULL
    /\ cases[get_open_case(cases, ch, u)].phase = "AUTH_TEXT_WAIT"
    /\ cases[get_open_case(cases, ch, u)].pending_step_no \in EvidenceSteps

\* C25: in phase AUTH_TEXT_WAIT a non-empty text of the technician is stored
\* as the authorization text of an attempt under the negated step number that
\* did not exist before and has no media, that attempt is submitted in the same
\* step and the case goes to AUTH_REVIEW; an empty text changes nothing.
C25_AuthTextFreshAttempt ==
    [][\A ch \in Chats, u \in Users, text \in Texts :
          \/ ~AwaitsAuthText(ch, u)
          \/ IF Strip(text) = << >> THEN UNCHANGED vars
             ELSE LET c == get_open_case(cases, ch, u)
                      s == cases[c].pending_step_no
                      k == <<c, -s, _max_attempt(step_state, c, -s) + 1>>
                  IN /\ k \notin DOMAIN step_state
                     /\ k \in DOMAIN step_state'
                     /\ step_state'[k].submitted = 1
                     /\ k \notin DOMAIN media'
                     /\ [case_id |-> c, step_no |-> s, attempt |-> k[3], text |-> Strip(text)]
                            \in auth_text'
                     /\ cases'[c].phase = "AUTH_REVIEW"
          \/ ~on_text(ch, u, text, TRUE, 0)]_vars

\* C26: pending_inputs never holds more than one request per (chat, actor);
\* an accepted AUT_BAD press (set) leaves exactly the new request under its
\* key, whatever was there; a text that consumes a request (pop) and does not
\* re-arm it leaves none under the key, so that the next text finds none.
C26_OnePendingPerKey ==
    [][/\ \A key \in DOMAIN pending_inputs :
            /\ \A p, q \in pending_inputs[key] : p = q
            /\ \A p, q \in pending_inputs'[key] : p = q
       /\ \A u \in Admins, b \in Pressed({"AUT"}) :
            \/ Refused(b[2], u, b[3], -b[4], b[5], TRUE)
            \/ /\ pending_of(pending_inputs', b[2], u) # {}
               /\ \A q \in pending_of(pending_inputs', b[2], u) :
                      Targets(q, b[3], b[4], b[5]) /\ q.created_at = now
            \/ ~on_callbacks_AUT_BAD(b[2], u, b[3], b[4], b[5], TRUE, 0)
       /\ \A ch \in Chats, u \in Users :
            \/ pending_of(pending_inputs', ch, u) = {}
            \/ pending_of(pending_inputs, ch, u) = {}
            \/ \A text \in Texts, f \in 0..1 :
                  \/ Strip(text) = << >> /\ f = 0
                  \/ ~on_text(ch, u, text, TRUE, f)]_vars

\* both administrators have pressed AUT_BAD: each key holds its one request
C26_Witness ==
    \E ch \in Chats :
        /\ Cardinality(pending_of(pending_inputs, ch, 2)) = 1
        /\ Cardinality(pending_of(pending_inputs, ch, 3)) = 1

\* C27 (under SpecConfig): a chat without a chat_config row reads as
\* 'required'; /aprobacion on|off in a chat makes the chat read as set and
\* leaves the rows of the other chats alone; no other step changes what a chat
\* reads as.
C27_ApprovalSetting ==
    [][\A ch \in ConfigChats :
          /\ chat_config[ch] = NULL => get_approval_required(chat_config, ch)
          /\ aprobacion_cmd(ch, "on") =>
                /\ get_approval_required(chat_config', ch)
                /\ \A other \in ConfigChats \ {ch} : chat_config'[other] = chat_config[other]
          /\ aprobacion_cmd(ch, "off") =>
                /\ ~get_approval_required(chat_config', ch)
                /\ \A other \in ConfigChats \ {ch} : chat_config'[other] = chat_config[other]
          /\ (~aprobacion_cmd(ch, "on") /\ ~aprobacion_cmd(ch, "off")) =>
                get_approval_required(chat_config', ch) = get_approval_required(chat_config, ch)]_vars

\* chat 1 was switched off and chat 2 on: each reads as it was set
C27_Witness ==
    /\ chat_config[1] = 0
    /\ chat_config[2] = 1
    /\ ~get_approval_required(chat_config, 1)
    /\ get_approval_required(chat_config, 2)

\* this step turns the evidence attempt k into a submitted one
Submits(k) ==
    /\ k \in DOMAIN step_state'
    /\ step_state'[k].submitted = 1
    /\ k \in DOMAIN step_state => step_state[k].submitted = 0

\* C28: when the chat of the case reads as 'approval not required', the step
\* that submits an evidence attempt also approves it and advances the case:
\* AUTH_ASK on the next step, or CLOSED on the last step.
C28_AutoApprove ==
    [][\A k \in DOMAIN step_state' :
          ( /\ k[2] > 0
            /\ ~get_approval_required(chat_config, cases[k[1]].chat_id)
            /\ Submits(k) )
          => /\ step_state'[k].approved = 1
             /\ IF k[2] >= STEP_LAST_MEDIA
                THEN cases'[k[1]].status = "CLOSED"
                ELSE /\ cases'[k[1]].phase = "AUTH_ASK"
                     /\ cases'[k[1]].pending_step_no = k[2] + 1]_vars

\* C29: the step that submits an attempt puts the case into a review phase:
\* STEP_REVIEW for an evidence attempt, AUTH_REVIEW for an authorization
\* attempt (submitted by text or by AUTH_DONE).
C29_SubmitEntersReview ==
    [][\A k \in DOMAIN step_state' :
          Submits(k) =>
              cases'[k[1]].phase = IF k[2] > 0 THEN "STEP_REVIEW" ELSE "AUTH_REVIEW"]_vars

\* C30: a review press (AUT_OK, AUT_BAD, REV_OK, REV_BAD) by a user who is
\* not an administrator of the chat changes nothing.
C30_NonAdminReviewRefused ==
    [][\A u \in Users \ Admins, b \in Pressed({"AUT", "REV"}), d \in BOOLEAN, f \in 0..1 :
          \/ UNCHANGED vars
          \/ ~( \/ /\ b[1] = "AUT"
                   /\ \/ on_callbacks_AUT_OK(b[2], u, b[3], b[4], b[5], TRUE, f)
                      \/ on_callbacks_AUT_BAD(b[2], u, b[3], b[4], b[5], TRUE, f)
                \/ /\ b[1] = "REV"
                   /\ \/ on_callbacks_REV_OK(b[2], u, b[3], b[4], b[5], TRUE, f)
                      \/ on_callbacks_REV_BAD(b[2], u, b[3], b[4], b[5], TRUE, d, f) )]_vars

\* the review keyboard of an unreviewed attempt of an OPEN case is in the
\* chat, where every member can press it
C30_Witness ==
    \E b \in Pressed({"AUT", "REV"}) :
        /\ AttemptOf(b) \in DOMAIN step_state
        /\ step_state[AttemptOf(b)].approved = NULL
        /\ cases[b[3]].status = "OPEN"
        /\ Users \ Admins # {}

\* C31: under fairness a case that is opened once and gets the four form
\* answers and then, for each step 5..15 in turn, a declined authorization,
\* at least one media item, one submit and a reviewer approval, eventually is
\* CLOSED; its step pointer never decreases on the way, and it closes on the
\* approval of step 15.
C31_CollectedCaseCloses ==
    /\ <>(\E c \in CaseIds(cases) : cases[c].status = "CLOSED")
    /\ [][\A c \in CaseIds(cases) :
            /\ cases[c].pending_step_no # NULL /\ cases'[c].status = "OPEN"
                  => cases'[c].pending_step_no >= cases[c].pending_step_no
            /\ cases[c].status = "OPEN" /\ cases'[c].status = "CLOSED"
                  => \E a \in Attempts(step_state, c, STEP_LAST_MEDIA) :
                        /\ step_state[<<c, STEP_LAST_MEDIA, a>>].approved = NULL
                        /\ step_state'[<<c, STEP_LAST_MEDIA, a>>].approved = 1]_vars

\* C32: once an approve or reject decision is recorded on an evidence
\* attempt, every later REV_OK or REV_BAD press on that attempt, by any
\* user, changes neither the attempts, nor the cases, nor the media ledger.
C32_EvidenceReviewedOnce ==
    [][\A b \in Pressed({"REV"}) :
          AttemptOf(b) \in DOMAIN step_state /\ step_state[AttemptOf(b)].approved # NULL =>
              \A u \in Users, r \in BOOLEAN, d \in BOOLEAN, f \in 0..1 :
                  \/ UNCHANGED <<step_state, cases, media>>
                  \/ ~( \/ on_callbacks_REV_OK(b[2], u, b[3], b[4], b[5], r, f)
                        \/ on_callbacks_REV_BAD(b[2], u, b[3], b[4], b[5], r, d, f) )]_vars

\* the review keyboard of a decided evidence attempt of an OPEN case is
\* still in the chat
C32_Witness ==
    \E b \in Pressed({"REV"}) :
        /\ AttemptOf(b) \in DOMAIN step_state
        /\ step_state[AttemptOf(b)].approved # NULL
        /\ step_state[AttemptOf(b)].reviewed_by \in Admins
        /\ cases[b[3]].status = "OPEN"

\* C33: at any time at most one attempt of a (case, evidence step) is
\* submitted and not yet reviewed.
C33_OneAttemptInReview ==
    \A k1 \in DOMAIN step_state, k2 \in DOMAIN step_state :
        /\ k1[1] = k2[1] /\ k1[2] = k2[2] /\ k1[2] > 0
        /\ step_state[k1].submitted = 1 /\ step_state[k1].approved = NULL
        /\ step_state[k2].submitted = 1 /\ step_state[k2].approved = NULL
        => k1 = k2

\* C34: while an OPEN case is not reset, no step moves its evidence step
\* pointer to a lower step.
C34_PointerNeverDecreases ==
    [][\A c \in CaseIds(cases) :
          /\ cases[c].status = "OPEN" /\ cases'[c].status = "OPEN"
          /\ cases'[c].created_at = cases[c].created_at
          /\ cases[c].pending_step_no # NULL /\ cases'[c].pending_step_no # NULL
          => cases'[c].pending_step_no >= cases[c].pending_step_no]_vars

C36_FormAnsweredBeforeEvidence ==
    \A c \in CaseIds(cases) :
        /\ cases[c].status = "OPEN"
        /\ cases[c].phase \in {"AUTH_ASK", "AUTH_MODE", "AUTH_TEXT_WAIT", "AUTH_MEDIA",
                               "AUTH_REVIEW", "STEP_MEDIA"}
        => /\ cases[c].technician_name # NULL_NAME
           /\ cases[c].service_type # NULL_NAME
           /\ cases[c].abonado_code # NULL_TEXT
           /\ cases[c].location_at # NULL

\* C37: after /inicio resets an OPEN case, an attempt the technician appends
\* to or submits holds no media item stored before the reset (every item is
\* stamped at or after the created_at the reset gave the case).
C37_NoLeakAcrossReset ==
    [][\A k \in DOMAIN step_state' :
          \/ media_count(media', k[1], k[2], k[3]) > media_count(media, k[1], k[2], k[3])
          \/ Submits(k)
          => \A i \in 1..media_count(media', k[1], k[2], k[3]) :
                media'[k][i] >= cases'[k[1]].created_at]_vars

\* a press of a collection button b (authorization ask or mode, authorization
\* submit, evidence submit) by user u
CollectionPress(b, u) ==
    \/ /\ b[1] = "AUTH_ASK"
       /\ \E yn \in {"YES", "NO"} : on_callbacks_AUTH_ASK(b[2], u, b[3], b[4], yn)
    \/ /\ b[1] = "AUTH_MODE"
       /\ \E mode \in {"TEXT", "MEDIA"} : on_callbacks_AUTH_MODE(b[2], u, b[3], b[4], mode)
    \/ /\ b[1] = "AUTH_CTRL"
       /\ on_callbacks_AUTH_DONE(b[2], u, b[3], b[4])
    \/ /\ b[1] = "MEDIA_CTRL"
       /\ on_callbacks_MEDIA_DONE(b[2], u, b[3], b[4])

\* C38: an authorization-ask answer, mode choice, authorization submit or
\* evidence submit pressed by a user other than the technician of the case
\* changes neither the cases nor the attempts; and a media item a user sends
\* is stored only under that user's own OPEN case of that chat.
C38_OnlyTechnicianDrives ==
    [][/\ \A b \in Pressed({"AUTH_ASK", "AUTH_MODE", "AUTH_CTRL", "MEDIA_CTRL"}) :
            \A u \in Users \ {cases[b[3]].user_id} :
                UNCHANGED <<cases, step_state, media>> \/ ~CollectionPress(b, u)
       /\ \A ch \in Chats, u \in Users :
            \/ media' = media
            \/ ~on_media(ch, u)
            \/ \A k \in DOMAIN media' :
                  media_count(media', k[1], k[2], k[3]) > media_count(media, k[1], k[2], k[3])
                  => /\ cases[k[1]].user_id = u
                     /\ cases[k[1]].chat_id = ch
                     /\ cases[k[1]].status = "OPEN"]_vars

\* a collection keyboard of an OPEN case is in the chat, where users other
\* than its technician can press it, after the technician stored an item
C38_Witness ==
    \E b \in Pressed({"AUTH_ASK"}), m \in Pressed({"MEDIA_CTRL"}) :
        /\ b[3] = m[3]
        /\ cases[b[3]].status = "OPEN"
        /\ Users \ {cases[b[3]].user_id} # {}
        /\ \E k \in DOMAIN media : k[1] = b[3] /\ now \in {media[k][i] : i \in 1..Len(media[k])}

=============================================================================
